---- MODULE Spec2Model ----
(***************************************************************************)
(* Model of the detection-interpretation pipeline of ppe_yolo:             *)
(*   - check_compliance          (src/backend/utils.py)                    *)
(*   - the /predict-video loop   (src/backend/app_enhanced.py)             *)
(* Coordinates are whole pixels; a centre (x1 + x2) / 2 is kept doubled    *)
(* (x1 + x2) so that half-pixel centres stay exact integers.               *)
(***************************************************************************)
EXTENDS Integers, Sequences, FiniteSets, TLC

VARIABLES
    detections,     \* argument of the running check_compliance call
    verdict,        \* its return value
    cc_pc,          \* "called" until it has returned
    call,           \* locals of each /predict-video request
    tmpfiles,       \* requests whose temporary video file exists in /tmp
    video_records,  \* rows written by save_video_processing_record
    detection_records,  \* rows of the detection_records table, in insertion order
    analytics,      \* the /analytics request: its arguments, its rows, its answer
    batch           \* the /predict-batch requests: how many ran, the last answer

vars == <<detections, verdict, cc_pc, call, tmpfiles, video_records,
          detection_records, analytics, batch>>

\* ------------------------------------------------------------------ bounds
\* longest detection sequence handed to check_compliance
MaxDets == 4
\* short videos have 0..MaxSourceFrames frames
MaxSourceFrames == 10
\* sample_rate ranges over 1..MaxSampleRate
MaxSampleRate == 3
\* small frame budgets range over 1..MaxBudget
MaxBudget == 3
\* most rows in the detection_records table when analytics are asked for
MaxRecords == 3
\* most rows, and most different violation messages, when the ranking of
\* violations is looked at
MaxRankedRecords == 7
MaxRankedMessages == 6
\* longest upload when degenerate conditions are looked at
MaxShortFrames == 2
MaxFiles == 2

Max2(a, b) == IF a >= b THEN a ELSE b
Min2(a, b) == IF a <= b THEN a ELSE b

\* ------------------------------------------------------------ input domain
Box(a, b, c, d) == [x1 |-> a, y1 |-> b, x2 |-> c, y2 |-> d]

Det(cls, box) == [class_name |-> cls, bounding_box |-> box]

\* person boxes: the second one is 20px to the right of the first
PersonBoxes == {Box(0, 0, 10, 10), Box(20, 0, 30, 10)}

\* helmet boxes, seen from the first person box (centre (5,5)):
\*   corner-touching, centre 49 away, centre exactly 50 away, far away
HelmetBoxes == {Box(10, 10, 20, 20), Box(49, 0, 59, 10), Box(50, 0, 60, 10),
                Box(200, 200, 210, 210)}

\* vest boxes, seen from the first person box:
\*   centre 49.5 away, centre 50.5 away, centre exactly 50 away on a 30-40-50
\*   diagonal, far away
VestBoxes == {Box(49, 0, 60, 10), Box(50, 0, 61, 10), Box(30, 40, 40, 50),
              Box(200, 200, 210, 210)}

DetectionUniverse ==
    {Det("person", b) : b \in PersonBoxes}
    \cup {Det("helmet", b) : b \in HelmetBoxes}
    \cup {Det("safety-vest", b) : b \in VestBoxes}
    \cup {Det("gloves", Box(0, 0, 10, 10))}

DetectionSeqs == UNION {[1..n -> DetectionUniverse] : n \in 0..MaxDets}

\* ------------------------------------------------------- check_compliance
\* list comprehension [d for d in detections if d["class_name"] == cls]
FilterClass(dets, cls) == SelectSeq(dets, LAMBDA d : d.class_name = cls)

Persons(dets) == FilterClass(dets, "person")
Helmets(dets) == FilterClass(dets, "helmet")
Vests(dets) == FilterClass(dets, "safety-vest")

\* default of the threshold parameter of boxes_overlap_or_close
threshold == 50

\* not (b1.x2 < b2.x1 or b1.x1 > b2.x2 or b1.y2 < b2.y1 or b1.y1 > b2.y2)
RectanglesOverlap(b1, b2) ==
    ~(b1.x2 < b2.x1 \/ b1.x1 > b2.x2 \/ b1.y2 < b2.y1 \/ b1.y1 > b2.y2)

\* slip: `distance <= threshold`
CentersCloseInclusive(b1, b2) ==
    LET dx2 == (b1.x1 + b1.x2) - (b2.x1 + b2.x2)
        dy2 == (b1.y1 + b1.y2) - (b2.y1 + b2.y2)
    IN  dx2 * dx2 + dy2 * dy2 <= (2 * threshold) * (2 * threshold)

\* distance < threshold, squared and with doubled centres:
\*   sqrt(dx^2 + dy^2) < t  <=>  (2dx)^2 + (2dy)^2 < (2t)^2
CentersClose(b1, b2) ==
    LET dx2 == (b1.x1 + b1.x2) - (b2.x1 + b2.x2)
        dy2 == (b1.y1 + b1.y2) - (b2.y1 + b2.y2)
    IN  dx2 * dx2 + dy2 * dy2 < (2 * threshold) * (2 * threshold)

boxes_overlap_or_close(box1, box2) ==
    LET b1 == box1.bounding_box
        b2 == box2.bounding_box
    IN  IF RectanglesOverlap(b1, b2) THEN TRUE ELSE CentersClose(b1, b2)

\* any(boxes_overlap_or_close(person, e) for e in equipment)
AnyAssociated(person, equipment) ==
    \E k \in 1..Len(equipment) : boxes_overlap_or_close(person, equipment[k])

HelmetViolation(i) == "Person #" \o ToString(i) \o " is not wearing a helmet"
VestViolation(i) == "Person #" \o ToString(i) \o " is not wearing a safety vest"

\* slip: `elif` - the vest is only looked at when the helmet is present
LoopBodyElif(acc, i, person, helmets, vests) ==
    LET has_helmet == AnyAssociated(person, helmets)
        has_vest == AnyAssociated(person, vests)
        v2 == IF ~has_helmet THEN Append(acc.violations, HelmetViolation(i))
              ELSE IF ~has_vest THEN Append(acc.violations, VestViolation(i))
              ELSE acc.violations
    IN  [violations |-> v2,
         persons_with_helmet |->
             acc.persons_with_helmet + (IF has_helmet THEN 1 ELSE 0),
         persons_with_vest |->
             acc.persons_with_vest + (IF has_vest THEN 1 ELSE 0),
         fully_compliant |->
             acc.fully_compliant + (IF has_helmet /\ has_vest THEN 1 ELSE 0)]

\* slip: the vest is checked, and reported, before the helmet
LoopBodyVestFirst(acc, i, person, helmets, vests) ==
    LET has_helmet == AnyAssociated(person, helmets)
        has_vest == AnyAssociated(person, vests)
        v1 == IF has_vest THEN acc.violations
              ELSE Append(acc.violations, VestViolation(i))
        v2 == IF has_helmet THEN v1 ELSE Append(v1, HelmetViolation(i))
    IN  [violations |-> v2,
         persons_with_helmet |->
             acc.persons_with_helmet + (IF has_helmet THEN 1 ELSE 0),
         persons_with_vest |->
             acc.persons_with_vest + (IF has_vest THEN 1 ELSE 0),
         fully_compliant |->
             acc.fully_compliant + (IF has_helmet /\ has_vest THEN 1 ELSE 0)]

\* slip: `or` - a person with one of the two items counts as fully compliant
LoopBodyFullyOr(acc, i, person, helmets, vests) ==
    LET has_helmet == AnyAssociated(person, helmets)
        has_vest == AnyAssociated(person, vests)
        v1 == IF has_helmet THEN acc.violations
              ELSE Append(acc.violations, HelmetViolation(i))
        v2 == IF has_vest THEN v1 ELSE Append(v1, VestViolation(i))
    IN  [violations |-> v2,
         persons_with_helmet |->
             acc.persons_with_helmet + (IF has_helmet THEN 1 ELSE 0),
         persons_with_vest |->
             acc.persons_with_vest + (IF has_vest THEN 1 ELSE 0),
         fully_compliant |->
             acc.fully_compliant + (IF has_helmet \/ has_vest THEN 1 ELSE 0)]

\* one iteration of `for i, person in enumerate(persons, 1)`
LoopBody(acc, i, person, helmets, vests) ==
    LET has_helmet == AnyAssociated(person, helmets)
        has_vest == AnyAssociated(person, vests)
        v1 == IF has_helmet THEN acc.violations
              ELSE Append(acc.violations, HelmetViolation(i))
        v2 == IF has_vest THEN v1 ELSE Append(v1, VestViolation(i))
    IN  [violations |-> v2,
         persons_with_helmet |->
             acc.persons_with_helmet + (IF has_helmet THEN 1 ELSE 0),
         persons_with_vest |->
             acc.persons_with_vest + (IF has_vest THEN 1 ELSE 0),
         fully_compliant |->
             acc.fully_compliant + (IF has_helmet /\ has_vest THEN 1 ELSE 0)]

\* the list without its first item associated with the person
WithoutFirstAssociated(person, equipment) ==
    LET hits == {k \in 1..Len(equipment) :
                    boxes_overlap_or_close(person, equipment[k])}
    IN  IF hits = {} THEN equipment
        ELSE LET m == CHOOSE k \in hits : \A j \in hits : k <= j
             IN  SubSeq(equipment, 1, m - 1)
                    \o SubSeq(equipment, m + 1, Len(equipment))

\* slip: an item that served one person is taken out of the list, so it
\* cannot serve the next one
RECURSIVE PersonLoopConsuming(_, _, _, _, _)
PersonLoopConsuming(acc, i, persons, helmets, vests) ==
    IF i > Len(persons) THEN acc
    ELSE PersonLoopConsuming(LoopBody(acc, i, persons[i], helmets, vests),
                             i + 1, persons,
                             WithoutFirstAssociated(persons[i], helmets),
                             WithoutFirstAssociated(persons[i], vests))

RECURSIVE PersonLoop(_, _, _, _, _)
PersonLoop(acc, i, persons, helmets, vests) ==
    IF i > Len(persons) THEN acc
    ELSE PersonLoop(LoopBody(acc, i, persons[i], helmets, vests),
                    i + 1, persons, helmets, vests)

LoopStart ==
    [violations |-> <<>>, persons_with_helmet |-> 0, persons_with_vest |-> 0,
     fully_compliant |-> 0]

\* slip: tolerates one violation
OverallComplianceOffByOne(violations) == Len(violations) <= 1

\* is_compliant = len(violations) == 0
OverallCompliance(violations) == Len(violations) = 0

\* slip: the violation message counts persons instead of violations
MessageCountsPersons(is_compliant, persons, violations) ==
    IF is_compliant
    THEN "All " \o ToString(Len(persons)) \o " person(s) are wearing required PPE"
    ELSE ToString(Len(persons)) \o " PPE violation(s) detected"

Message(is_compliant, persons, violations) ==
    IF is_compliant
    THEN "All " \o ToString(Len(persons)) \o " person(s) are wearing required PPE"
    ELSE ToString(Len(violations)) \o " PPE violation(s) detected"

ExtraHelmets(helmets, persons) ==
    "Extra helmets detected (" \o ToString(Len(helmets)) \o " helmets for "
        \o ToString(Len(persons)) \o " persons)"

ExtraVests(vests, persons) ==
    "Extra vests detected (" \o ToString(Len(vests)) \o " vests for "
        \o ToString(Len(persons)) \o " persons)"

\* slip: the helmet warning is guarded by the vest count (copied condition)
WarningsCopiedGuard(persons, helmets, vests) ==
    (IF Len(vests) > Len(persons)
     THEN <<ExtraHelmets(helmets, persons)>> ELSE <<>>)
    \o (IF Len(vests) > Len(persons)
        THEN <<ExtraVests(vests, persons)>> ELSE <<>>)

Warnings(persons, helmets, vests) ==
    (IF Len(helmets) > Len(persons)
     THEN <<ExtraHelmets(helmets, persons)>> ELSE <<>>)
    \o (IF Len(vests) > Len(persons)
        THEN <<ExtraVests(vests, persons)>> ELSE <<>>)

\* the early return of `if not persons`
NoPersonsVerdict ==
    [is_compliant |-> TRUE,
     message |-> "No persons detected",
     details |-> [total_persons |-> 0, persons_with_helmet |-> 0,
                  persons_with_vest |-> 0, fully_compliant |-> 0],
     violations |-> <<>>,
     warnings |-> <<>>]

ResultVerdict(persons, helmets, vests) ==
    LET acc == PersonLoop(LoopStart, 1, persons, helmets, vests)
        is_compliant == OverallCompliance(acc.violations)
    IN  [is_compliant |-> is_compliant,
         message |-> Message(is_compliant, persons, acc.violations),
         details |-> [total_persons |-> Len(persons),
                      persons_with_helmet |-> acc.persons_with_helmet,
                      persons_with_vest |-> acc.persons_with_vest,
                      fully_compliant |-> acc.fully_compliant,
                      total_helmets |-> Len(helmets),
                      total_vests |-> Len(vests)],
         violations |-> acc.violations,
         warnings |-> Warnings(persons, helmets, vests)]

\* slip: the `if not persons` early return is missing
check_complianceNoEarlyReturn(dets) ==
    ResultVerdict(Persons(dets), Helmets(dets), Vests(dets))

check_compliance(dets) ==
    LET persons == Persons(dets)
        helmets == Helmets(dets)
        vests == Vests(dets)
    IN  IF Len(persons) = 0 THEN NoPersonsVerdict
        ELSE ResultVerdict(persons, helmets, vests)

\* --------------------------------------------- one call of check_compliance
\* value of `verdict` before the call has returned
NotReturned ==
    [is_compliant |-> FALSE, message |-> "", details |-> <<>>,
     violations |-> <<>>, warnings |-> <<>>]

\* ------------------------------------------------------------ /predict-video
CallIds == {1, 2}

\* Query defaults of predict_video and the response-size limit
DefaultSampleRate == 1
DefaultMaxFrames == 300
ResponseFrameLimit == 50

\* what inference finds in a frame: nothing, a bare person, an equipped
\* person, two persons sharing one helmet
FrameKinds ==
    << <<>>,
       <<Det("person", Box(0, 0, 10, 10))>>,
       <<Det("person", Box(0, 0, 10, 10)), Det("helmet", Box(10, 10, 20, 20)),
         Det("safety-vest", Box(49, 0, 60, 10))>>,
       <<Det("person", Box(0, 0, 10, 10)), Det("person", Box(20, 0, 30, 10)),
         Det("helmet", Box(10, 10, 20, 20)), Det("gloves", Box(0, 0, 10, 10))>> >>

\* an uploaded file cv2.VideoCapture cannot open: isOpened() is False and
\* every cap.get() is 0
UnopenedSource ==
    [opened |-> FALSE, nframes |-> 0, hint |-> 0, fps |-> 0, seed |-> 0]

\* frame counts of the videos: short ones and one of 100 frames
FrameCounts == (0..MaxSourceFrames) \cup {100}

\* CAP_PROP_FPS: unknown (0) or 25 frames per second
FrameRates == {0, 25}

\* readable videos: nframes frames, a CAP_PROP_FRAME_COUNT hint that is right
\* or missing (0), a frame rate; frame n shows FrameKinds[(seed + n) mod 4 + 1]
OpenedSources ==
    {[opened |-> TRUE, nframes |-> n, hint |-> h, fps |-> f, seed |-> k] :
        n \in FrameCounts, h \in FrameCounts, f \in FrameRates,
        k \in 0..(Len(FrameKinds) - 1)}

Sources ==
    {UnopenedSource} \cup {src \in OpenedSources : src.hint \in {0, src.nframes}}

SampleRates == 1..MaxSampleRate
Budgets == (1..MaxBudget) \cup {100, DefaultMaxFrames}

\* model.predict on frame n of the source, turned into the detections list
Infer(src, n) == FrameKinds[((src.seed + n) % Len(FrameKinds)) + 1]

\* class_counts of a detections list (only the three known keys are counted)
ClassCounts(dets) ==
    [person |-> Len(FilterClass(dets, "person")),
     helmet |-> Len(FilterClass(dets, "helmet")),
     safety_vest |-> Len(FilterClass(dets, "safety-vest"))]

\* round(num / den, 2) in hundredths: the nearest hundredth; on an exact tie
\* the float division decides, so both neighbours are possible
Round2Set(num, den) ==
    LET q == (100 * num) \div den
        r == (100 * num) % den
    IN  IF 2 * r < den THEN {q}
        ELSE IF 2 * r > den THEN {q + 1}
        ELSE {q, q + 1}

\* a float quotient num / den kept exact; `X if den > 0 else 0`
Ratio(num, den) ==
    IF den > 0 THEN [num |-> num, den |-> den] ELSE [num |-> 0, den |-> 1]

\* s[1] + ... + s[n]
RECURSIVE SumTo(_, _)
SumTo(s, n) == IF n = 0 THEN 0 ELSE s[n] + SumTo(s, n - 1)

\* sum(s)
SumSeq(s) == SumTo(s, Len(s))

\* slip: the slice is forgotten
PrefixNoLimit(s, n) == s

\* s[:n]
Prefix(s, n) == SubSeq(s, 1, IF Len(s) < n THEN Len(s) ELSE n)

\* Optional values: None is the empty sequence, a present value x is <<x>>
None == <<>>

Some(x) == <<x>>

\* `if x:` for an Optional string
TruthyStr(x) == x # None /\ x[1] # ""

\* `if x:` for an Optional boolean
TruthyBool(x) == x # None /\ x[1]

\* days: int = Query(7, ge=1, le=365)
DefaultDays == 7

\* no /analytics request has been made
IdleAnalytics ==
    [pc |-> "idle", days |-> DefaultDays, endpoint |-> None,
     records |-> <<>>, result |-> None, error |-> None]

\* no /predict-batch request has been made; request ids are fresh for every
\* request, here the number of requests that got one
IdleBatch ==
    [pc |-> "idle", request_id |-> 0, total_images |-> 0,
     processed_images |-> 0, failed_images |-> 0]

IdleCall ==
    [pc |-> "idle", source |-> UnopenedSource,
     sample_rate |-> DefaultSampleRate, max_frames |-> DefaultMaxFrames,
     cap_pos |-> 0, fps |-> 0, total_frames |-> 0, duration |-> Ratio(0, 0),
     frame_detections |-> <<>>, frame_number |-> 0, processed_frames |-> 0,
     total_detections |-> 0, person_counts |-> <<>>, helmet_counts |-> <<>>,
     vest_counts |-> <<>>, compliant_frames |-> 0, non_compliant_frames |-> 0,
     response |-> <<>>]

\* no request is being served and no check_compliance call is open
InitVideo ==
    /\ detections = <<>>
    /\ verdict = NotReturned
    /\ cc_pc = "idle"
    /\ call = [c \in CallIds |-> IdleCall]
    /\ tmpfiles = {}
    /\ video_records = <<>>
    /\ detection_records = <<>>
    /\ analytics = IdleAnalytics
    /\ batch = IdleBatch

\* `model is None` or a content type that is not video/*: HTTP 503 / 400
\* before anything is written
VReject(c) ==
    /\ call[c].pc = "idle"
    /\ call' = [call EXCEPT ![c].pc = "rejected"]
    /\ UNCHANGED <<tmpfiles, video_records, detections, verdict, cc_pc,
                   detection_records, analytics, batch>>

\* the temporary file is written, the capture opened and the locals set up,
\* for an upload and query parameters out of the given sets
VStartFrom(c, sources, rates, budgets) ==
    /\ call[c].pc = "idle"
    /\ \E src \in sources, s \in rates, m \in budgets :
          call' = [call EXCEPT ![c] =
                      [IdleCall EXCEPT
                          !.pc = "loop", !.source = src,
                          !.sample_rate = s, !.max_frames = m,
                          !.fps = src.fps, !.total_frames = src.hint,
                          !.duration = Ratio(src.hint, src.fps)]]
    /\ tmpfiles' = tmpfiles \cup {c}
    /\ UNCHANGED <<video_records, detections, verdict, cc_pc,
                   detection_records, analytics, batch>>

VStart(c) == VStartFrom(c, Sources, SampleRates, Budgets)

\* slip: `<=` lets one frame too many through
LoopGuardInclusive(opened, processed_frames, max_frames) ==
    opened /\ processed_frames <= max_frames

\* while cap.isOpened() and processed_frames < max_frames
LoopGuard(opened, processed_frames, max_frames) ==
    opened /\ processed_frames < max_frames

\* slip: the first frame of every group is skipped instead of taken
SampledOneBased(frame_number, sample_rate) ==
    (frame_number + 1) % sample_rate = 0

\* if frame_number % sample_rate == 0
Sampled(frame_number, sample_rate) == frame_number % sample_rate = 0

\* ret of cap.read(): a frame is left in the source
ReadSucceeds(l) == l.cap_pos < l.source.nframes

InLoop(c) ==
    /\ call[c].pc = "loop"
    /\ LoopGuard(call[c].source.opened, call[c].processed_frames,
                 call[c].max_frames)

\* the while condition fails, or cap.read() returns ret = False: break
VLoopExit(c) ==
    /\ call[c].pc = "loop"
    /\ \/ ~LoopGuard(call[c].source.opened, call[c].processed_frames,
                     call[c].max_frames)
       \/ ~ReadSucceeds(call[c])
    /\ call' = [call EXCEPT ![c].pc = "after_loop"]
    /\ UNCHANGED <<tmpfiles, video_records, detections, verdict, cc_pc,
                   detection_records, analytics, batch>>

\* a frame is read and skipped by the sampling
VLoopSkip(c) ==
    /\ InLoop(c)
    /\ ReadSucceeds(call[c])
    /\ ~Sampled(call[c].frame_number, call[c].sample_rate)
    /\ call' = [call EXCEPT ![c].cap_pos = @ + 1, ![c].frame_number = @ + 1]
    /\ UNCHANGED <<tmpfiles, video_records, detections, verdict, cc_pc,
                   detection_records, analytics, batch>>

\* slip: the `else` is missing, every processed frame counts as non-compliant
ProcessFrameNoElse(l, ts, dets, compliance) ==
    LET class_counts == ClassCounts(dets)
        is_compliant == compliance.is_compliant
    IN  [l EXCEPT
            !.cap_pos = @ + 1,
            !.compliant_frames = @ + (IF is_compliant THEN 1 ELSE 0),
            !.non_compliant_frames = @ + 1,
            !.frame_detections =
                Append(@, [frame_number |-> l.frame_number,
                           timestamp_seconds |-> ts,
                           detections |-> dets,
                           summary |-> class_counts,
                           is_compliant |-> is_compliant]),
            !.total_detections = @ + Len(dets),
            !.person_counts = Append(@, class_counts.person),
            !.helmet_counts = Append(@, class_counts.helmet),
            !.vest_counts = Append(@, class_counts.safety_vest),
            !.processed_frames = @ + 1,
            !.frame_number = @ + 1]

\* the body of `if frame_number % sample_rate == 0` and the increment after
\* it, on the frame just read: dets is the detections list built from the
\* inference results, compliance is check_compliance(dets), ts the rounded
\* timestamp
ProcessFrame(l, ts, dets, compliance) ==
    LET class_counts == ClassCounts(dets)
        is_compliant == compliance.is_compliant
    IN  [l EXCEPT
            !.cap_pos = @ + 1,
            !.compliant_frames = @ + (IF is_compliant THEN 1 ELSE 0),
            !.non_compliant_frames = @ + (IF is_compliant THEN 0 ELSE 1),
            !.frame_detections =
                Append(@, [frame_number |-> l.frame_number,
                           timestamp_seconds |-> ts,
                           detections |-> dets,
                           summary |-> class_counts,
                           is_compliant |-> is_compliant]),
            !.total_detections = @ + Len(dets),
            !.person_counts = Append(@, class_counts.person),
            !.helmet_counts = Append(@, class_counts.helmet),
            !.vest_counts = Append(@, class_counts.safety_vest),
            !.processed_frames = @ + 1,
            !.frame_number = @ + 1]

\* round(frame_number / fps, 2) if fps > 0 else 0
Timestamps(l) ==
    IF l.fps > 0 THEN Round2Set(l.frame_number, l.fps) ELSE {0}

\* slip: processed_frames is one module-level counter instead of a local, so
\* a frame processed by one request also counts for every other request
\* that is in its loop
VLoopProcessSharedCounter(c) ==
    /\ InLoop(c)
    /\ ReadSucceeds(call[c])
    /\ Sampled(call[c].frame_number, call[c].sample_rate)
    /\ \E ts \in Timestamps(call[c]),
          dets \in {Infer(call[c].source, call[c].cap_pos)} :
          \E compliance \in {check_compliance(dets)} :
              call' = [d \in CallIds |->
                         IF d = c
                         THEN ProcessFrame(call[c], ts, dets, compliance)
                         ELSE IF call[d].pc = "loop"
                         THEN [call[d] EXCEPT !.processed_frames = @ + 1]
                         ELSE call[d]]
    /\ UNCHANGED <<tmpfiles, video_records, detections, verdict, cc_pc,
                   detection_records, analytics, batch>>

\* a frame is read, sampled, inferred on and accumulated
VLoopProcess(c) ==
    /\ InLoop(c)
    /\ ReadSucceeds(call[c])
    /\ Sampled(call[c].frame_number, call[c].sample_rate)
    /\ \E ts \in Timestamps(call[c]),
          dets \in {Infer(call[c].source, call[c].cap_pos)} :
          \E compliance \in {check_compliance(dets)} :
              call' = [call EXCEPT ![c] =
                          ProcessFrame(call[c], ts, dets, compliance)]
    /\ UNCHANGED <<tmpfiles, video_records, detections, verdict, cc_pc,
                   detection_records, analytics, batch>>

\* slip: a failed inference is caught inside the loop and breaks out of it, so
\* that a report is built from the frames processed so far
VLoopInferenceBreaks(c) ==
    /\ InLoop(c)
    /\ ReadSucceeds(call[c])
    /\ Sampled(call[c].frame_number, call[c].sample_rate)
    /\ call' = [call EXCEPT ![c].cap_pos = @ + 1, ![c].pc = "after_loop"]
    /\ UNCHANGED <<tmpfiles, video_records, detections, verdict, cc_pc,
                   detection_records, analytics, batch>>

\* model.predict raises on a sampled frame: the except clause answers
\* HTTP 500; cap.release() and os.remove() are never reached
VLoopInferenceFails(c) ==
    /\ InLoop(c)
    /\ ReadSucceeds(call[c])
    /\ Sampled(call[c].frame_number, call[c].sample_rate)
    /\ call' = [call EXCEPT ![c].cap_pos = @ + 1, ![c].pc = "failed"]
    /\ UNCHANGED <<tmpfiles, video_records, detections, verdict, cc_pc,
                   detection_records, analytics, batch>>

\* slip: rate and averages are taken over the frames read, not the frames
\* processed
ProcessingResultsOverFramesRead(l) ==
    [frames_processed |-> l.processed_frames,
     total_detections |-> l.total_detections,
     avg_person_count |-> Ratio(SumSeq(l.person_counts), l.frame_number),
     avg_helmet_count |-> Ratio(SumSeq(l.helmet_counts), l.frame_number),
     avg_vest_count |-> Ratio(SumSeq(l.vest_counts), l.frame_number),
     compliant_frames |-> l.compliant_frames,
     non_compliant_frames |-> l.non_compliant_frames,
     compliance_rate |-> Ratio(100 * l.compliant_frames, l.frame_number)]

\* processing_results handed to save_video_processing_record
ProcessingResults(l) ==
    [frames_processed |-> l.processed_frames,
     total_detections |-> l.total_detections,
     avg_person_count |-> Ratio(SumSeq(l.person_counts), Len(l.person_counts)),
     avg_helmet_count |-> Ratio(SumSeq(l.helmet_counts), Len(l.helmet_counts)),
     avg_vest_count |-> Ratio(SumSeq(l.vest_counts), Len(l.vest_counts)),
     compliant_frames |-> l.compliant_frames,
     non_compliant_frames |-> l.non_compliant_frames,
     compliance_rate |-> Ratio(100 * l.compliant_frames, l.processed_frames)]

\* the row save_video_processing_record adds
VideoRecord(c, l) ==
    [request_id |-> c,
     total_frames |-> l.total_frames, fps |-> l.fps,
     duration_seconds |-> l.duration,
     results |-> ProcessingResults(l),
     sample_rate |-> l.sample_rate]

\* the VideoProcessingResponse built from the locals l and the
\* processing_results pr, its rounded values in hundredths
Responses(c, l, pr) ==
        {[success |-> TRUE, request_id |-> c,
          total_frames |-> l.total_frames,
          processed_frames |-> l.processed_frames,
          metadata |-> [total_frames |-> l.total_frames, fps |-> l.fps,
                        duration_seconds |-> d, sample_rate |-> l.sample_rate],
          frame_detections |-> Prefix(l.frame_detections, ResponseFrameLimit),
          overall_summary |->
              [total_detections |-> l.total_detections,
               avg_person_count |-> ap, avg_helmet_count |-> ah,
               avg_vest_count |-> av,
               compliant_frames |-> l.compliant_frames,
               non_compliant_frames |-> l.non_compliant_frames],
          compliance_rate |-> cr] :
            d \in Round2Set(l.duration.num, l.duration.den),
            ap \in Round2Set(pr.avg_person_count.num, pr.avg_person_count.den),
            ah \in Round2Set(pr.avg_helmet_count.num, pr.avg_helmet_count.den),
            av \in Round2Set(pr.avg_vest_count.num, pr.avg_vest_count.den),
            cr \in Round2Set(pr.compliance_rate.num, pr.compliance_rate.den)}

\* after the loop: release, remove the temporary file, save the record and
\* return the report
VFinish(c) ==
    /\ call[c].pc = "after_loop"
    /\ tmpfiles' = tmpfiles \ {c}
    /\ video_records' = Append(video_records, VideoRecord(c, call[c]))
    /\ \E pr \in {ProcessingResults(call[c])} :
          \E resp \in Responses(c, call[c], pr) :
              call' = [call EXCEPT ![c].pc = "returned",
                                   ![c].response = <<resp>>]
    /\ UNCHANGED <<detections, verdict, cc_pc,
                   detection_records, analytics, batch>>

\* after the loop: release, remove the temporary file, and the store refuses
\* the record: the except clause answers HTTP 500
VSaveFails(c) ==
    /\ call[c].pc = "after_loop"
    /\ tmpfiles' = tmpfiles \ {c}
    /\ call' = [call EXCEPT ![c].pc = "failed"]
    /\ UNCHANGED <<video_records, detections, verdict, cc_pc,
                   detection_records, analytics, batch>>

\* one request, served alone
NextVideo ==
    \/ VReject(1)
    \/ VStart(1)
    \/ VLoopExit(1)
    \/ VLoopSkip(1)
    \/ VLoopProcess(1)
    \/ VLoopInferenceFails(1)
    \/ VFinish(1)
    \/ VSaveFails(1)

SpecVideo == InitVideo /\ [][NextVideo]_vars

\* the handler is one coroutine that runs to its end once started
FairSpecVideo == SpecVideo /\ WF_vars(NextVideo)

\* --------------------------------------------------------------- analytics
\* Time is counted in hours since an epoch; a calendar date is the day number
\* (its ISO string orders like the number).
HoursPerDay == 24

\* datetime.utcnow() of the /analytics request: noon of day 10
Now == 10 * HoursPerDay + 12

DateOf(timestamp) == timestamp \div HoursPerDay

\* the analytics windows asked for
DaysAsked == {1, DefaultDays}

\* the endpoint filters asked for: none, an empty string, one endpoint
EndpointsAsked == {None, Some(""), Some("predict")}

\* an image request that reached save_detection_record: when it was made,
\* through which endpoint, what the detector found, whether the compliance
\* check ran and how long processing took
ImageRequest(at, endpoint, dets, check, ms) ==
    [at |-> at, endpoint |-> endpoint, dets |-> dets, check |-> check, ms |-> ms]

\* image requests of the last days: inside and outside both windows, on the
\* inclusive boundary of each, with and without the compliance check
ImageRequests ==
    { ImageRequest(Now - DefaultDays * HoursPerDay - 1, "predict",
                   FrameKinds[2], TRUE, 30),
      ImageRequest(Now - DefaultDays * HoursPerDay, "predict",
                   FrameKinds[1], TRUE, 10),
      ImageRequest(Now - 2 * HoursPerDay, "predict-batch",
                   FrameKinds[3], FALSE, 60),
      ImageRequest(Now - HoursPerDay, "check-compliance",
                   <<Det("person", Box(0, 0, 10, 10)),
                     Det("helmet", Box(10, 10, 20, 20))>>, TRUE, 200),
      ImageRequest(Now - 1, "predict", FrameKinds[2], TRUE, 120),
      ImageRequest(Now - 1, "predict", FrameKinds[2], FALSE, 80),
      ImageRequest(Now - 1, "check-compliance", FrameKinds[3], TRUE, 45) }

\* process_image: compliance_result stays None unless the check is asked for
ComplianceResult(req) ==
    IF req.check THEN Some(check_compliance(req.dets)) ELSE None

\* slip: `compliance.get("is_compliant") or None` turns a false flag into
\* NULL while the message is kept
SavedRecordFlagOrNone(req) ==
    LET compliance == ComplianceResult(req)
        summary == ClassCounts(req.dets)
    IN  [timestamp |-> req.at,
         endpoint |-> req.endpoint,
         total_detections |-> Len(req.dets),
         person_count |-> summary.person,
         helmet_count |-> summary.helmet,
         vest_count |-> summary.safety_vest,
         processing_time_ms |-> req.ms,
         is_compliant |->
            IF compliance # None /\ compliance[1].is_compliant
            THEN Some(TRUE) ELSE None,
         compliance_message |->
            IF compliance # None THEN Some(compliance[1].message) ELSE None]

\* the row save_detection_record builds
SavedRecord(req) ==
    LET compliance == ComplianceResult(req)
        summary == ClassCounts(req.dets)
    IN  [timestamp |-> req.at,
         endpoint |-> req.endpoint,
         total_detections |-> Len(req.dets),
         person_count |-> summary.person,
         helmet_count |-> summary.helmet,
         vest_count |-> summary.safety_vest,
         processing_time_ms |-> req.ms,
         is_compliant |->
            IF compliance # None THEN Some(compliance[1].is_compliant) ELSE None,
         compliance_message |->
            IF compliance # None THEN Some(compliance[1].message) ELSE None]

\* an image endpoint serves a request and appends its row. The timestamp is
\* taken when the row is built and the query has no ORDER BY, so the rows
\* need not come in the order of their timestamps.
SaveDetection(req) ==
    /\ analytics.pc = "idle"
    /\ detection_records' = Append(detection_records, SavedRecord(req))
    /\ UNCHANGED <<analytics, call, tmpfiles, video_records,
                   detections, verdict, cc_pc, batch>>

\* start_date = datetime.utcnow() - timedelta(days=days)
StartDate(days) == Now - days * HoursPerDay

\* the filtered query: timestamp >= start_date, and the endpoint when one is
\* given
QueryAll(table, days, endpoint) ==
    SelectSeq(table,
              LAMBDA r : /\ r.timestamp >= StartDate(days)
                         /\ TruthyStr(endpoint) => r.endpoint = endpoint[1])

DateRange(days) ==
    [start |-> StartDate(days), end |-> Now, days |-> ToString(days)]

\* {}
EmptyDict == [k \in {} |-> 0]

\* the early return for an empty window
EmptyAnalytics(days) ==
    [total_requests |-> 0,
     date_range |-> DateRange(days),
     summary |-> EmptyDict,
     compliance_statistics |-> EmptyDict,
     top_violations |-> <<>>,
     detection_trends |-> <<>>,
     performance_metrics |-> EmptyDict]

\* sum(r.<field> for r in records)
RECURSIVE SumField(_, _, _)
SumField(records, field, n) ==
    IF n = 0 THEN 0 ELSE records[n][field] + SumField(records, field, n - 1)

\* slip: the filter is forgotten, every row counts as a compliance check
ComplianceRecordsAll(records) == records

\* [r for r in records if r.is_compliant is not None]
ComplianceRecords(records) ==
    SelectSeq(records, LAMBDA r : r.is_compliant # None)

\* sum(1 for r in compliance_records if r.is_compliant)
CompliantCount(compliance_records) ==
    Len(SelectSeq(compliance_records, LAMBDA r : TruthyBool(r.is_compliant)))

\* slip: with nothing checked the rate defaults to 100 instead of 0
ComplianceRateDefaultsToFull(compliance_records) ==
    IF compliance_records # <<>>
    THEN [num |-> 100 * CompliantCount(compliance_records),
          den |-> Len(compliance_records)]
    ELSE [num |-> 100, den |-> 1]

\* (compliant_count / len(compliance_records) * 100) if compliance_records
\* else 0
ComplianceRate(compliance_records) ==
    IF compliance_records # <<>>
    THEN [num |-> 100 * CompliantCount(compliance_records),
          den |-> Len(compliance_records)]
    ELSE [num |-> 0, den |-> 1]

\* if not record.is_compliant and record.compliance_message
IsViolation(record) ==
    ~TruthyBool(record.is_compliant) /\ TruthyStr(record.compliance_message)

\* violations[msg] = violations.get(msg, 0) + 1 on an insertion-ordered dict,
\* kept as the sequence of its items
Tally(violations, msg) ==
    IF \E i \in 1..Len(violations) : violations[i].violation = msg
    THEN [i \in 1..Len(violations) |->
            IF violations[i].violation = msg
            THEN [violations[i] EXCEPT !.count = @ + 1]
            ELSE violations[i]]
    ELSE Append(violations, [violation |-> msg, count |-> 1])

\* the loop over records[i..] that fills violations
RECURSIVE ViolationsLoop(_, _, _)
ViolationsLoop(violations, records, i) ==
    IF i > Len(records) THEN violations
    ELSE ViolationsLoop(
            IF IsViolation(records[i])
            THEN Tally(violations, records[i].compliance_message[1])
            ELSE violations,
            records, i + 1)

\* slip: an unstable descending sort that puts a later item before the
\* earlier ones of the same count
InsertDescBeforeTies(sorted, item) ==
    LET p == Cardinality({j \in 1..Len(sorted) : sorted[j].count > item.count})
    IN  SubSeq(sorted, 1, p) \o <<item>> \o SubSeq(sorted, p + 1, Len(sorted))

\* one step of the stable descending sort: the item goes behind every item
\* whose count is at least its own
InsertDesc(sorted, item) ==
    LET p == Cardinality({j \in 1..Len(sorted) : sorted[j].count >= item.count})
    IN  SubSeq(sorted, 1, p) \o <<item>> \o SubSeq(sorted, p + 1, Len(sorted))

\* sorted(violations.items(), key=lambda x: x[1], reverse=True); Python's
\* sort is stable, also with reverse=True
RECURSIVE SortedByCountDesc(_, _)
SortedByCountDesc(items, n) ==
    IF n = 0 THEN <<>>
    ELSE InsertDesc(SortedByCountDesc(items, n - 1), items[n])

\* [:5]
TopViolationsLimit == 5

TopViolations(records) ==
    LET violations == ViolationsLoop(<<>>, records, 1)
    IN  Prefix(SortedByCountDesc(violations, Len(violations)), TopViolationsLimit)

\* slip: the `if date_key not in daily_stats` is missing, so the bucket is
\* started anew by every record of its date
AddToDayResets(daily_stats, record) ==
    LET date_key == DateOf(record.timestamp)
        known == \E i \in 1..Len(daily_stats) : daily_stats[i].date = date_key
        fresh == [date |-> date_key, requests |-> 1,
                  detections |-> record.total_detections,
                  persons |-> record.person_count,
                  helmets |-> record.helmet_count,
                  vests |-> record.vest_count]
    IN  IF known
        THEN [i \in 1..Len(daily_stats) |->
                IF daily_stats[i].date = date_key THEN fresh ELSE daily_stats[i]]
        ELSE Append(daily_stats, fresh)

\* daily_stats[date_key][...] += ... on an insertion-ordered dict, kept as
\* the sequence of its values
AddToDay(daily_stats, record) ==
    LET date_key == DateOf(record.timestamp)
        known == \E i \in 1..Len(daily_stats) : daily_stats[i].date = date_key
        stats == IF known THEN daily_stats
                 ELSE Append(daily_stats,
                             [date |-> date_key, requests |-> 0,
                              detections |-> 0, persons |-> 0,
                              helmets |-> 0, vests |-> 0])
    IN  [i \in 1..Len(stats) |->
            IF stats[i].date = date_key
            THEN [stats[i] EXCEPT
                    !.requests = @ + 1,
                    !.detections = @ + record.total_detections,
                    !.persons = @ + record.person_count,
                    !.helmets = @ + record.helmet_count,
                    !.vests = @ + record.vest_count]
            ELSE stats[i]]

RECURSIVE DailyStats(_, _)
DailyStats(records, n) ==
    IF n = 0 THEN <<>> ELSE AddToDay(DailyStats(records, n - 1), records[n])

\* one step of the stable ascending sort by date
InsertByDate(sorted, item) ==
    LET p == Cardinality({j \in 1..Len(sorted) : sorted[j].date <= item.date})
    IN  SubSeq(sorted, 1, p) \o <<item>> \o SubSeq(sorted, p + 1, Len(sorted))

\* slip: the buckets are emitted in the order the dict holds them
SortedByDateUnsorted(items, n) == items

\* sorted(daily_stats.values(), key=lambda x: x["date"])
RECURSIVE SortedByDate(_, _)
SortedByDate(items, n) ==
    IF n = 0 THEN <<>> ELSE InsertByDate(SortedByDate(items, n - 1), items[n])

DetectionTrends(records) ==
    LET daily_stats == DailyStats(records, Len(records))
    IN  SortedByDate(daily_stats, Len(daily_stats))

\* min(...) / max(...) of the processing times
MinTime(records) ==
    CHOOSE t \in {records[i].processing_time_ms : i \in 1..Len(records)} :
        \A i \in 1..Len(records) : t <= records[i].processing_time_ms

MaxTime(records) ==
    CHOOSE t \in {records[i].processing_time_ms : i \in 1..Len(records)} :
        \A i \in 1..Len(records) : t >= records[i].processing_time_ms

\* how a function call ends: it returns a value or raises an exception
Returns(value) == [raised |-> None, value |-> Some(value)]

Raises(exception) == [raised |-> Some(exception), value |-> None]

\* the statistics part of get_analytics: the ways it can end. Rounded values
\* are in hundredths. The first division by total_requests raises when no
\* row is there.
FullAnalytics(records, days) ==
    IF Len(records) = 0 THEN {Raises("ZeroDivisionError")} ELSE
    LET total_requests == Len(records)
        total_detections == SumField(records, "total_detections", Len(records))
        compliance_records == ComplianceRecords(records)
        compliant_count == CompliantCount(compliance_records)
        compliance_rate == ComplianceRate(compliance_records)
    IN  { Returns(
          [total_requests |-> total_requests,
           date_range |-> DateRange(days),
           summary |->
              [total_detections |-> total_detections,
               total_persons |-> SumField(records, "person_count", Len(records)),
               total_helmets |-> SumField(records, "helmet_count", Len(records)),
               total_vests |-> SumField(records, "vest_count", Len(records)),
               avg_detections_per_request |-> avg],
           compliance_statistics |->
              [total_checks |-> Len(compliance_records),
               compliant |-> compliant_count,
               non_compliant |-> Len(compliance_records) - compliant_count,
               compliance_rate_percent |-> rate],
           top_violations |-> TopViolations(records),
           detection_trends |-> DetectionTrends(records),
           performance_metrics |->
              [avg_processing_time_ms |-> avg_time,
               min_processing_time_ms |-> 100 * MinTime(records),
               max_processing_time_ms |-> 100 * MaxTime(records)]]) :
          avg \in Round2Set(total_detections, total_requests),
          rate \in Round2Set(compliance_rate.num, compliance_rate.den),
          avg_time \in Round2Set(
              SumField(records, "processing_time_ms", Len(records)),
              total_requests) }

\* slip: the early return for an empty window is missing
get_analyticsNoEarlyReturn(records, days) == FullAnalytics(records, days)

\* get_analytics on the rows the query returned
get_analytics(records, days) ==
    IF records = <<>> THEN {Returns(EmptyAnalytics(days))}
    ELSE FullAnalytics(records, days)

\* GET /analytics: the answer is returned, or the exception of get_analytics
\* becomes HTTP 500
GetAnalytics ==
    /\ analytics.pc = "idle"
    /\ \E days \in DaysAsked, endpoint \in EndpointsAsked :
          \E records \in {QueryAll(detection_records, days, endpoint)} :
             \E outcome \in get_analytics(records, days) :
                analytics' = [pc |-> IF outcome.raised = None
                                     THEN "returned" ELSE "failed",
                              days |-> days, endpoint |-> endpoint,
                              records |-> records,
                              result |-> outcome.value,
                              error |-> outcome.raised]
    /\ UNCHANGED <<detection_records, call, tmpfiles, video_records,
                   detections, verdict, cc_pc, batch>>

\* slip: the query also deletes the rows that are older than its window
GetAnalyticsAgainPurges ==
    /\ analytics.pc # "idle"
    /\ \E days \in DaysAsked, endpoint \in EndpointsAsked :
          \E records \in {QueryAll(detection_records, days, endpoint)} :
             \E outcome \in get_analytics(records, days) :
                /\ analytics' = [pc |-> IF outcome.raised = None
                                        THEN "returned" ELSE "failed",
                                 days |-> days, endpoint |-> endpoint,
                                 records |-> records,
                                 result |-> outcome.value,
                                 error |-> outcome.raised]
                /\ detection_records' = QueryAll(detection_records, days, None)
    /\ UNCHANGED <<call, tmpfiles, video_records, detections, verdict, cc_pc, batch>>

\* GET /analytics once more, after an earlier request was answered: the
\* handler runs anew and nothing of the earlier request is kept
GetAnalyticsAgain ==
    /\ analytics.pc # "idle"
    /\ \E days \in DaysAsked, endpoint \in EndpointsAsked :
          \E records \in {QueryAll(detection_records, days, endpoint)} :
             \E outcome \in get_analytics(records, days) :
                analytics' = [pc |-> IF outcome.raised = None
                                     THEN "returned" ELSE "failed",
                              days |-> days, endpoint |-> endpoint,
                              records |-> records,
                              result |-> outcome.value,
                              error |-> outcome.raised]
    /\ UNCHANGED <<detection_records, call, tmpfiles, video_records,
                   detections, verdict, cc_pc, batch>>

\* the store raises while the query runs: HTTP 500
GetAnalyticsFails ==
    /\ analytics.pc = "idle"
    /\ \E days \in DaysAsked, endpoint \in EndpointsAsked :
          analytics' = [IdleAnalytics EXCEPT
                           !.pc = "failed", !.days = days,
                           !.endpoint = endpoint,
                           !.error = Some("OperationalError")]
    /\ UNCHANGED <<detection_records, call, tmpfiles, video_records,
                   detections, verdict, cc_pc, batch>>

\* image requests fill the table, then analytics are asked for
NextAnalytics ==
    \/ /\ Len(detection_records) < MaxRecords
       /\ \E req \in ImageRequests : SaveDetection(req)
    \/ GetAnalytics
    \/ GetAnalyticsFails

SpecAnalytics == InitVideo /\ [][NextAnalytics]_vars

\* image requests fill the table, then analytics are asked for again and
\* again
NextQueries ==
    \/ /\ Len(detection_records) < MaxRecords
       /\ \E req \in ImageRequests : SaveDetection(req)
    \/ GetAnalytics
    \/ GetAnalyticsAgain
    \/ GetAnalyticsFails

SpecQueries == InitVideo /\ [][NextQueries]_vars

\* k violations in one image: persons 100px apart without a vest, the first
\* one with a helmet when k is odd; no person at all for k = 0
RECURSIVE BarePersons(_)
BarePersons(n) ==
    IF n = 0 THEN <<>>
    ELSE Append(BarePersons(n - 1),
                Det("person", Box(100 * n, 0, 100 * n + 10, 10)))

ViolatingCrowd(k) ==
    BarePersons((k + 1) \div 2)
        \o (IF k % 2 = 1 THEN <<Det("helmet", Box(100, 0, 110, 10))>> ELSE <<>>)

\* a /check-compliance request of the last hour on such an image
RankedRequest(k) ==
    ImageRequest(Now - 1, "check-compliance", ViolatingCrowd(k), TRUE, 100)

\* the number of different messages of failed checks in the table
MessagesSeen ==
    Cardinality({detection_records[i].compliance_message :
                    i \in {j \in 1..Len(detection_records) :
                              detection_records[j].is_compliant = Some(FALSE)}})

\* compliance checks with many different outcomes fill the table, then
\* analytics are asked for. Ranking looks at messages only through equality,
\* so a new message is always the next one not seen yet.
NextRanking ==
    \/ /\ Len(detection_records) < MaxRankedRecords
       /\ \E k \in 0..Min2(MessagesSeen + 1, MaxRankedMessages) :
             SaveDetection(RankedRequest(k))
    \/ GetAnalytics
    \/ GetAnalyticsFails

SpecRanking == InitVideo /\ [][NextRanking]_vars

\* uploads of at most MaxShortFrames frames, with and without a frame rate
ShortSources == {src \in Sources : src.nframes <= MaxShortFrames}

\* image requests served without a compliance check
UncheckedRequests == {req \in ImageRequests : ~req.check}

\* a video request on a short upload next to unchecked image requests and an
\* analytics request, in any interleaving
NextDegenerate ==
    \/ VReject(1)
    \/ VStartFrom(1, ShortSources, SampleRates, {DefaultMaxFrames})
    \/ VLoopExit(1)
    \/ VLoopSkip(1)
    \/ VLoopProcess(1)
    \/ VLoopInferenceFails(1)
    \/ VFinish(1)
    \/ VSaveFails(1)
    \/ /\ Len(detection_records) < MaxRecords
       /\ \E req \in UncheckedRequests : SaveDetection(req)
    \/ GetAnalytics
    \/ GetAnalyticsFails

SpecDegenerate == InitVideo /\ [][NextDegenerate]_vars

\* uploads and parameters of two requests served at the same time
PairSources ==
    {src \in ShortSources : src.fps > 0 /\ src.hint = src.nframes}
        \cup {UnopenedSource}

PairRates == {DefaultSampleRate, DefaultSampleRate + 1}

PairBudgets == {1, DefaultMaxFrames}

\* two requests, their steps interleaved frame by frame
NextTwoCalls ==
    \/ \E c \in CallIds : VReject(c)
    \/ \E c \in CallIds : VStartFrom(c, PairSources, PairRates, PairBudgets)
    \/ \E c \in CallIds : VLoopExit(c)
    \/ \E c \in CallIds : VLoopSkip(c)
    \/ \E c \in CallIds : VLoopProcess(c)
    \/ \E c \in CallIds : VLoopInferenceFails(c)
    \/ \E c \in CallIds : VFinish(c)
    \/ \E c \in CallIds : VSaveFails(c)

SpecTwoCalls == InitVideo /\ [][NextTwoCalls]_vars

\* ------------------------------------------------------ POST /predict-batch
\* `if len(files) > 50`
MaxBatchImages == 50

\* an uploaded file: its content type, whether PIL can open it, what the
\* detector finds in it and how long processing takes
UploadFile(content_type, readable, dets, ms) ==
    [content_type |-> content_type, readable |-> readable,
     dets |-> dets, ms |-> ms]

TextUpload == UploadFile(Some("text/plain"), FALSE, <<>>, 0)

\* two images, one of them sent without a content type, a text file and a
\* file that calls itself an image but cannot be opened
BatchUploads ==
    { UploadFile(Some("image/jpeg"), TRUE, FrameKinds[2], 40),
      UploadFile(None, TRUE, FrameKinds[3], 70),
      TextUpload,
      UploadFile(Some("image/jpeg"), FALSE, <<>>, 0) }

\* the file lists sent: none, up to MaxFiles files, one file too many
BatchInputs ==
    UNION {[1..n -> BatchUploads] : n \in 0..MaxFiles}
        \cup {[i \in 1..(MaxBatchImages + 1) |-> TextUpload]}

\* file.content_type and not file.content_type.startswith("image/")
NotAnImage(file) ==
    file.content_type # None /\ file.content_type[1] \notin {"image/jpeg", "image/png"}

\* the `for file in files` loop after its first i rounds: the rows saved, the
\* length of results and failed_images. A file of another type is skipped, an
\* exception of process_image is caught; both count as failed.
RECURSIVE BatchLoop(_, _, _)
BatchLoop(files, check_compliance_flag, i) ==
    IF i = 0 THEN [saved |-> <<>>, results |-> 0, failed_images |-> 0]
    ELSE LET before == BatchLoop(files, check_compliance_flag, i - 1)
             file == files[i]
         IN  IF NotAnImage(file) \/ ~file.readable
             THEN [before EXCEPT !.failed_images = @ + 1]
             ELSE [before EXCEPT
                      !.saved = Append(@, SavedRecord(
                                   ImageRequest(Now - 1, "predict-batch",
                                                file.dets, check_compliance_flag,
                                                file.ms))),
                      !.results = @ + 1]

\* slip: the batch is saved as one row, that of its first processed image
PredictBatchOneRecord(files, check_compliance_flag) ==
    /\ analytics.pc = "idle"
    /\ Len(files) \in 1..MaxBatchImages
    /\ \E done \in {BatchLoop(files, check_compliance_flag, Len(files))} :
          /\ detection_records' = detection_records \o Prefix(done.saved, 1)
          /\ batch' = [pc |-> "returned",
                       request_id |-> batch.request_id + 1,
                       total_images |-> Len(files),
                       processed_images |-> done.results,
                       failed_images |-> done.failed_images]
    /\ UNCHANGED <<analytics, call, tmpfiles, video_records,
                   detections, verdict, cc_pc>>

\* a batch request is served: every processed image is saved as a row of its
\* own, under a request id of its own, and the answer counts the images
PredictBatch(files, check_compliance_flag) ==
    /\ analytics.pc = "idle"
    /\ Len(files) \in 1..MaxBatchImages
    /\ \E done \in {BatchLoop(files, check_compliance_flag, Len(files))} :
          /\ detection_records' = detection_records \o done.saved
          /\ batch' = [pc |-> "returned",
                       request_id |-> batch.request_id + 1,
                       total_images |-> Len(files),
                       processed_images |-> done.results,
                       failed_images |-> done.failed_images]
    /\ UNCHANGED <<analytics, call, tmpfiles, video_records,
                   detections, verdict, cc_pc>>

\* no file or more than 50 files: HTTP 400 before a request id is drawn
PredictBatchRejects(files) ==
    /\ analytics.pc = "idle"
    /\ Len(files) \notin 1..MaxBatchImages
    /\ batch' = [batch EXCEPT !.pc = "rejected"]
    /\ UNCHANGED <<detection_records, analytics, call, tmpfiles, video_records,
                   detections, verdict, cc_pc>>

\* single-image requests of the last hour, one to /predict and one to
\* /check-compliance
SingleRequests ==
    {req \in ImageRequests :
        req.endpoint # "predict-batch" /\ req.at = Now - 1 /\ req.check}

\* the uploads of the video request: one of two frames, of which the second
\* is skipped, or a file that does not open
StoreSources ==
    {src \in PairSources :
        ~src.opened \/ (src.nframes = DefaultSampleRate + 1 /\ src.seed = 0)}

\* every writer of the store next to the reader: image requests, a batch
\* request, a video request on a short upload, analytics
NextStore ==
    \/ VReject(1)
    \/ VStartFrom(1, StoreSources, {DefaultSampleRate + 1}, {DefaultMaxFrames})
    \/ VLoopExit(1)
    \/ VLoopSkip(1)
    \/ VLoopProcess(1)
    \/ VLoopInferenceFails(1)
    \/ VFinish(1)
    \/ VSaveFails(1)
    \/ /\ Len(detection_records) < MaxRecords
       /\ \E req \in SingleRequests : SaveDetection(req)
    \/ /\ batch.pc = "idle"
       /\ \E files \in BatchInputs, flag \in BOOLEAN : PredictBatch(files, flag)
    \/ \E files \in BatchInputs : PredictBatchRejects(files)
    \/ GetAnalytics
    \/ GetAnalyticsFails

SpecStore == InitVideo /\ [][NextStore]_vars

\* a row as the schema allows it: is_compliant and compliance_message are
\* nullable independently of each other
AnyRow(flag, message) ==
    [timestamp |-> Now - 1, endpoint |-> "predict", total_detections |-> 1,
     person_count |-> 1, helmet_count |-> 0, vest_count |-> 0,
     processing_time_ms |-> 100,
     is_compliant |-> flag, compliance_message |-> message]

AnyRows ==
    {AnyRow(flag, message) :
        flag \in {None, Some(TRUE), Some(FALSE)},
        message \in {None, Some(""), Some("2 PPE violation(s) detected")}}

\* the aggregation as a function of an arbitrary record set
InitRollup ==
    /\ detection_records \in UNION {[1..n -> AnyRows] : n \in 0..MaxRecords}
    /\ analytics = IdleAnalytics
    /\ batch = IdleBatch
    /\ detections = <<>>
    /\ verdict = NotReturned
    /\ cc_pc = "idle"
    /\ call = [c \in CallIds |-> IdleCall]
    /\ tmpfiles = {}
    /\ video_records = <<>>

NextRollup ==
    \/ GetAnalytics
    \/ GetAnalyticsFails

SpecRollup == InitRollup /\ [][NextRollup]_vars

\* one call of check_compliance on an arbitrary detection sequence
InitCompliance ==
    /\ detections \in DetectionSeqs
    /\ verdict = NotReturned
    /\ cc_pc = "called"
    /\ call = [c \in CallIds |-> IdleCall]
    /\ tmpfiles = {}
    /\ video_records = <<>>
    /\ detection_records = <<>>
    /\ analytics = IdleAnalytics
    /\ batch = IdleBatch

Evaluate ==
    /\ cc_pc = "called"
    /\ verdict' = check_compliance(detections)
    /\ cc_pc' = "returned"
    /\ UNCHANGED <<detections, call, tmpfiles, video_records,
                   detection_records, analytics, batch>>

NextCompliance == Evaluate

SpecCompliance == InitCompliance /\ [][NextCompliance]_vars

\* ------------------------------------------- properties of check_compliance
Returned == cc_pc = "returned"

\* positions of the detections of one class in the input, in input order
ClassIdx(cls) == {k \in 1..Len(detections) : detections[k].class_name = cls}

NumPersons == Cardinality(ClassIdx("person"))
NumHelmets == Cardinality(ClassIdx("helmet"))
NumVests == Cardinality(ClassIdx("safety-vest"))

\* 1-based rank of input position k among the detections of its class
Rank(k) ==
    Cardinality({j \in 1..k : detections[j].class_name = detections[k].class_name})


\* the rectangles share at least one point (edges and corners included)
Intersect(b1, b2) ==
    /\ Max2(b1.x1, b2.x1) <= Min2(b1.x2, b2.x2)
    /\ Max2(b1.y1, b2.y1) <= Min2(b1.y2, b2.y2)

\* four times the squared distance between the centres
Dist2x4(b1, b2) ==
    ((b1.x1 + b1.x2) - (b2.x1 + b2.x2)) * ((b1.x1 + b1.x2) - (b2.x1 + b2.x2))
    + ((b1.y1 + b1.y2) - (b2.y1 + b2.y2)) * ((b1.y1 + b1.y2) - (b2.y1 + b2.y2))

\* the association rule as the specification words it: 4 * 50^2 = 10000
Associated(b1, b2) == Intersect(b1, b2) \/ Dist2x4(b1, b2) < 10000

\* input positions of the persons with no associated equipment of class cls
Lacking(cls) ==
    {k \in ClassIdx("person") :
        ~\E j \in ClassIdx(cls) :
            Associated(detections[k].bounding_box, detections[j].bounding_box)}

InSeq(x, s) == \E n \in 1..Len(s) : s[n] = x

\* C1: the verdict is compliant exactly when its violations list is empty, and
\* a detection set without persons is compliant.
C1_CompliantIffNoViolations ==
    Returned =>
        /\ verdict.is_compliant <=> (verdict.violations = <<>>)
        /\ NumPersons = 0 => verdict.is_compliant

\* a person with helmet and vest, judged compliant with no violations
C1_Witness ==
    /\ Returned
    /\ NumPersons >= 1
    /\ verdict.is_compliant
    /\ verdict.violations = <<>>

\* C2: the number of violation entries is the number of persons without an
\* associated helmet plus the number of persons without an associated vest;
\* N persons with no helmets and no vests give 2N entries and a non-compliant
\* verdict.
C2_ViolationCount ==
    Returned =>
        /\ Len(verdict.violations)
              = Cardinality(Lacking("helmet")) + Cardinality(Lacking("safety-vest"))
        /\ (NumPersons >= 1 /\ NumHelmets = 0 /\ NumVests = 0) =>
              /\ Len(verdict.violations) = 2 * NumPersons
              /\ ~verdict.is_compliant

\* two persons: one lacks only the vest, the other lacks both items
C2_Witness ==
    /\ Returned
    /\ NumPersons = 2
    /\ Cardinality(Lacking("helmet")) = 1
    /\ Cardinality(Lacking("safety-vest")) = 2
    /\ Len(verdict.violations) = 3

\* C3: without a person detection the verdict is compliant, says
\* "No persons detected" and has no violations and no warnings, whatever else
\* was detected.
C3_NoPersons ==
    (Returned /\ NumPersons = 0) =>
        /\ verdict.is_compliant = TRUE
        /\ verdict.message = "No persons detected"
        /\ verdict.violations = <<>>
        /\ verdict.warnings = <<>>

\* no person, but helmets and vests are present
C3_Witness ==
    /\ Returned
    /\ NumPersons = 0
    /\ NumHelmets >= 1
    /\ NumVests >= 1
    /\ verdict.message = "No persons detected"

SixCounters ==
    {"total_persons", "persons_with_helmet", "persons_with_vest",
     "fully_compliant", "total_helmets", "total_vests"}

\* C5: every verdict, the one for zero persons included, carries all six
\* counters in its details.
C5_AllSixCounters == Returned => DOMAIN verdict.details = SixCounters

\* C6 as stated: the message is "All <n> person(s) are wearing required PPE"
\* when the verdict is compliant and a person is present, and
\* "<k> PPE violation(s) detected" in every other case.
C6_MessageAsStated ==
    Returned =>
        verdict.message =
            IF verdict.is_compliant /\ NumPersons >= 1
            THEN "All " \o ToString(NumPersons)
                     \o " person(s) are wearing required PPE"
            ELSE ToString(Len(verdict.violations)) \o " PPE violation(s) detected"

\* C6 amended: the message is "All <n> person(s) are wearing required PPE"
\* when the verdict is compliant and a person is present,
\* "<k> PPE violation(s) detected" when the verdict is not compliant, and
\* "No persons detected" when no person is present; N persons without any
\* helmet or vest give "<2N> PPE violation(s) detected".
C6_Message ==
    Returned =>
        /\ (verdict.is_compliant /\ NumPersons >= 1) =>
              verdict.message = "All " \o ToString(NumPersons)
                                    \o " person(s) are wearing required PPE"
        /\ ~verdict.is_compliant =>
              verdict.message = ToString(Len(verdict.violations))
                                    \o " PPE violation(s) detected"
        /\ NumPersons = 0 => verdict.message = "No persons detected"
        /\ (NumPersons >= 1 /\ NumHelmets = 0 /\ NumVests = 0) =>
              verdict.message = ToString(2 * NumPersons)
                                    \o " PPE violation(s) detected"

\* two persons and nothing else: four violations
C6_Witness ==
    /\ Returned
    /\ NumPersons = 2
    /\ NumHelmets = 0
    /\ NumVests = 0
    /\ verdict.message = "4 PPE violation(s) detected"

HelmetSurplusText ==
    "Extra helmets detected (" \o ToString(NumHelmets) \o " helmets for "
        \o ToString(NumPersons) \o " persons)"

VestSurplusText ==
    "Extra vests detected (" \o ToString(NumVests) \o " vests for "
        \o ToString(NumPersons) \o " persons)"

\* equipment far from every person box of the input domain
FarEquipment ==
    {Det("helmet", Box(200, 200, 210, 210)),
     Det("safety-vest", Box(200, 200, 210, 210))}

\* adding far-away equipment to the input changes neither is_compliant nor
\* the violations
SurplusIsNeutral ==
    \A e \in FarEquipment :
        /\ check_compliance(Append(detections, e)).is_compliant
              = verdict.is_compliant
        /\ check_compliance(Append(detections, e)).violations
              = verdict.violations
        /\ check_compliance(<<e>> \o detections).is_compliant
              = verdict.is_compliant
        /\ check_compliance(<<e>> \o detections).violations
              = verdict.violations

\* C7 as stated: more helmets than persons always gives a helmet-surplus
\* warning, likewise for vests, and surplus equipment never changes
\* is_compliant.
C7_WarningsAsStated ==
    Returned =>
        /\ NumHelmets > NumPersons => InSeq(HelmetSurplusText, verdict.warnings)
        /\ NumVests > NumPersons => InSeq(VestSurplusText, verdict.warnings)
        /\ SurplusIsNeutral

\* C7 amended: when at least one person is detected, more helmets than
\* persons gives a helmet-surplus warning, likewise for vests; with no person
\* there is no warning; surplus equipment far from every person changes
\* neither is_compliant nor the violations.
C7_Warnings ==
    Returned =>
        /\ (NumPersons >= 1 /\ NumHelmets > NumPersons) =>
              InSeq(HelmetSurplusText, verdict.warnings)
        /\ (NumPersons >= 1 /\ NumVests > NumPersons) =>
              InSeq(VestSurplusText, verdict.warnings)
        /\ NumPersons = 0 => verdict.warnings = <<>>
        /\ SurplusIsNeutral

\* one person with two helmets and one vest: warned about helmets only
C7_Witness ==
    /\ Returned
    /\ NumPersons = 1
    /\ NumHelmets = 2
    /\ NumVests = 1
    /\ verdict.warnings = <<"Extra helmets detected (2 helmets for 1 persons)">>

\* ------------------------------------------------ properties of the video loop
\* the request under observation
Req == call[1]

LoopLeft == Req.pc \in {"after_loop", "returned"}

\* ceil(n / s)
CeilDiv(n, s) == (n + s - 1) \div s

\* frame numbers of the accumulated frame reports, in order
ProcessedNumbers ==
    [k \in 1..Len(Req.frame_detections) |-> Req.frame_detections[k].frame_number]

\* 0, s, 2s, ... : min(m, ceil(N / s)) numbers
ExpectedNumbers(N, s, m) ==
    [k \in 1..Min2(m, CeilDiv(N, s)) |-> (k - 1) * s]

C9_Frames ==
    /\ LoopLeft => ProcessedNumbers = ExpectedNumbers(Req.source.nframes,
                                                      Req.sample_rate,
                                                      Req.max_frames)
    /\ Req.pc \in {"loop", "after_loop", "returned"} =>
          Req.frame_number = Req.cap_pos

\* C9: the loop over a source of N frames terminates having processed exactly
\* the frames numbered 0, s, 2s, ... (min(m, ceil(N/s)) of them, in order),
\* and frame_number counts every frame read, sampled or not.
C9_SampledFrames == [](C9_Frames) /\ ((Req.pc = "loop") ~> (Req.pc # "loop"))

\* sample_rate 2 on 10 frames with a budget of 100: frames 0, 2, 4, 6, 8
C9_Witness ==
    /\ Req.pc = "returned"
    /\ Req.sample_rate = 2
    /\ Req.source.nframes = 10
    /\ Req.max_frames = 100
    /\ ProcessedNumbers = <<0, 2, 4, 6, 8>>
    /\ Req.frame_number = 10

\* C10: processed_frames never exceeds max_frames; when the budget is reached
\* the last frame read is the last frame processed; only sampled frames count
\* toward the budget; the reported total_frames is the source's frame-count
\* hint, early stop or not.
C10_Budget ==
    Req.pc \in {"loop", "after_loop", "returned", "failed"} =>
        /\ Req.processed_frames <= Req.max_frames
        /\ Req.processed_frames = Req.max_frames =>
              Req.cap_pos = (Req.max_frames - 1) * Req.sample_rate + 1
        /\ Req.processed_frames = CeilDiv(Req.frame_number, Req.sample_rate)
        /\ Req.processed_frames = Len(Req.frame_detections)
        /\ Req.pc = "returned" =>
              /\ Req.response[1].total_frames = Req.source.hint
              /\ Req.response[1].processed_frames = Req.processed_frames

\* budget 3, every frame sampled, 100 frames: 3 processed, 3 read, 100 reported
C10_Witness ==
    /\ Req.pc = "returned"
    /\ Req.max_frames = 3
    /\ Req.sample_rate = 1
    /\ Req.source.nframes = 100
    /\ Req.cap_pos = 3
    /\ Req.response[1].processed_frames = 3
    /\ Req.response[1].total_frames = 100

\* ----------------------------------------------- properties of the video report
Report == Req.response[1]

\* detections of the k-th processed frame, which is frame (k - 1) * sample_rate
KthDetections(k) == Infer(Req.source, (k - 1) * Req.sample_rate)

KthCount(k, cls) ==
    Cardinality({j \in 1..Len(KthDetections(k)) :
                    KthDetections(k)[j].class_name = cls})

KthCompliant(k) == check_compliance(KthDetections(k)).is_compliant

ProcessedIdx == 1..Req.processed_frames

CompliantIdx == {k \in ProcessedIdx : KthCompliant(k)}

\* f[1] + ... + f[n]
RECURSIVE SumFn(_, _)
SumFn(f, n) == IF n = 0 THEN 0 ELSE f[n] + SumFn(f, n - 1)

AllDetections ==
    SumFn([k \in ProcessedIdx |-> Len(KthDetections(k))], Req.processed_frames)

AllOfClass(cls) ==
    SumFn([k \in ProcessedIdx |-> KthCount(k, cls)], Req.processed_frames)

\* v (in hundredths) is num / den rounded to two decimals
IsRounded(v, num, den) ==
    /\ 2 * (v * den - 100 * num) <= den
    /\ 2 * (100 * num - v * den) <= den

\* C11: the report lists exactly the first min(50, processed_frames) processed
\* frames in increasing frame_number order, while total_detections, the
\* averages, the compliant / non-compliant counts and compliance_rate are
\* taken over all processed frames.
C11_CappedList ==
    Req.pc = "returned" =>
        /\ Len(Report.frame_detections) = Min2(50, Req.processed_frames)
        /\ \A k \in 1..Len(Report.frame_detections) :
              /\ Report.frame_detections[k].frame_number
                    = (k - 1) * Req.sample_rate
              /\ Report.frame_detections[k].detections = KthDetections(k)
        /\ Report.processed_frames = Req.processed_frames
        /\ Report.overall_summary.total_detections = AllDetections
        /\ Report.overall_summary.compliant_frames = Cardinality(CompliantIdx)
        /\ Report.overall_summary.non_compliant_frames
              = Req.processed_frames - Cardinality(CompliantIdx)
        /\ Req.processed_frames > 0 =>
              /\ IsRounded(Report.overall_summary.avg_person_count,
                           AllOfClass("person"), Req.processed_frames)
              /\ IsRounded(Report.overall_summary.avg_helmet_count,
                           AllOfClass("helmet"), Req.processed_frames)
              /\ IsRounded(Report.overall_summary.avg_vest_count,
                           AllOfClass("safety-vest"), Req.processed_frames)
              /\ IsRounded(Report.compliance_rate,
                           100 * Cardinality(CompliantIdx), Req.processed_frames)

\* 100 frames processed, 50 listed; half of all 100 frames are compliant
C11_Witness ==
    /\ Req.pc = "returned"
    /\ Req.processed_frames = 100
    /\ Len(Report.frame_detections) = 50
    /\ Report.frame_detections[50].frame_number = 49
    /\ Report.overall_summary.compliant_frames = 50
    /\ Report.compliance_rate = 5000

\* the row written for the request
SavedResults == video_records[1].results

\* the exact quotient q equals num / den
IsQuotient(q, num, den) == q.num * den = num * q.den

\* C12: with at least one processed frame, compliant_frames counts the
\* processed frames judged compliant, compliance_rate is
\* compliant_frames / processed_frames * 100, and each average is the sum of
\* the class's per-frame counts over processed_frames (the report carries
\* these values rounded to two decimals).
C12_RateAndAverages ==
    (Req.pc = "returned" /\ Req.processed_frames >= 1) =>
        /\ SavedResults.compliant_frames = Cardinality(CompliantIdx)
        /\ SavedResults.frames_processed = Req.processed_frames
        /\ IsQuotient(SavedResults.compliance_rate,
                      100 * Cardinality(CompliantIdx), Req.processed_frames)
        /\ IsQuotient(SavedResults.avg_person_count,
                      AllOfClass("person"), Req.processed_frames)
        /\ IsQuotient(SavedResults.avg_helmet_count,
                      AllOfClass("helmet"), Req.processed_frames)
        /\ IsQuotient(SavedResults.avg_vest_count,
                      AllOfClass("safety-vest"), Req.processed_frames)
        /\ IsRounded(Report.compliance_rate,
                     SavedResults.compliance_rate.num,
                     SavedResults.compliance_rate.den)

\* three frames (nothing, a bare person, an equipped person): two of three
\* compliant, 66.67 percent, 2/3 person per frame
C12_Witness ==
    /\ Req.pc = "returned"
    /\ Req.processed_frames = 3
    /\ Req.frame_number = 3
    /\ SavedResults.compliant_frames = 2
    /\ Report.compliance_rate = 6667
    /\ Report.overall_summary.avg_person_count = 67

\* C13: a frame source that cannot be opened makes the call fail: no report
\* is returned and no video-processing record is written.
C13_OpenFailureIsFatal ==
    (Req.pc \notin {"idle", "rejected"} /\ ~Req.source.opened) =>
        /\ Req.pc # "returned"
        /\ Req.response = <<>>
        /\ video_records = <<>>

\* C14: a call in which inference failed ends in an error with no report and
\* no record; a report is built, and a record written, only when every frame
\* that was read went through the loop body to its end.
C14_InferenceFailureAborts ==
    /\ Req.pc = "failed" => (Req.response = <<>> /\ video_records = <<>>)
    /\ Req.pc \in {"after_loop", "returned"} => Req.cap_pos = Req.frame_number
    /\ (Req.response # <<>> \/ video_records # <<>>) =>
          (Req.pc = "returned" /\ Req.cap_pos = Req.frame_number)

\* inference failed on the third sampled frame: two frames were accumulated,
\* nothing was returned or stored
C14_Witness ==
    /\ Req.pc = "failed"
    /\ Req.processed_frames = 2
    /\ Req.cap_pos = Req.frame_number + 1
    /\ Req.response = <<>>
    /\ video_records = <<>>

\* ------------------------------------------------- properties of analytics
Answered == analytics.pc = "returned"

Answer == analytics.result[1]

\* the rows of the table that the request's window and filter select
InWindow ==
    {i \in 1..Len(detection_records) :
        /\ detection_records[i].timestamp
              >= Now - analytics.days * HoursPerDay
        /\ analytics.endpoint \in {None, Some("")}
              \/ Some(detection_records[i].endpoint) = analytics.endpoint}

\* C17: on an empty window the answer has total_requests = 0, empty summary,
\* compliance_statistics and performance_metrics, empty top_violations and
\* detection_trends, and a date_range that is still filled in; the request
\* never ends in a division error.
C17_EmptyWindow ==
    /\ (Answered /\ InWindow = {}) =>
          /\ Answer.total_requests = 0
          /\ DOMAIN Answer.summary = {}
          /\ DOMAIN Answer.compliance_statistics = {}
          /\ DOMAIN Answer.performance_metrics = {}
          /\ Answer.top_violations = <<>>
          /\ Answer.detection_trends = <<>>
          /\ Answer.date_range.end = Now
          /\ Answer.date_range.start = Now - analytics.days * HoursPerDay
          /\ Answer.date_range.days = ToString(analytics.days)
    /\ Answered => (InWindow = {} <=> analytics.records = <<>>)
    /\ analytics.error # Some("ZeroDivisionError")

\* the table holds rows, but none as recent as one day: the window is empty
C17_Witness ==
    /\ Answered
    /\ Len(detection_records) = 2
    /\ InWindow = {}
    /\ analytics.days = 1
    /\ analytics.endpoint = None
    /\ Answer.total_requests = 0

Flag(i) == detection_records[i].is_compliant

MessageOf(i) == detection_records[i].compliance_message

\* rows of the window that failed their compliance check with message msg
FailedWith(msg) ==
    {i \in InWindow : Flag(i) = Some(FALSE) /\ MessageOf(i) = Some(msg)}

\* messages of the window's rows whose check failed
FailureMessages ==
    {MessageOf(i)[1] : i \in {j \in InWindow : Flag(j) = Some(FALSE)
                                               /\ MessageOf(j) # None
                                               /\ MessageOf(j) # Some("")}}

Listed == {Answer.top_violations[k].violation :
              k \in 1..Len(Answer.top_violations)}

Checked == {i \in InWindow : Flag(i) # None}

Passed == {i \in InWindow : Flag(i) = Some(TRUE)}

\* the window without its rows that carry no compliance flag
CheckedRows ==
    SelectSeq(analytics.records, LAMBDA r : r.is_compliant # None)

\* C20: for a non-empty window total_checks counts the rows with a non-null
\* flag, compliant those whose flag is true, non_compliant is their
\* difference and compliance_rate_percent is compliant / total_checks * 100
\* rounded to two decimals (0 without checks); rows with a null flag change
\* none of the four.
C20_ComplianceStatistics ==
    (Answered /\ InWindow # {}) =>
        LET stats == Answer.compliance_statistics IN
        /\ stats.total_checks = Cardinality(Checked)
        /\ stats.compliant = Cardinality(Passed)
        /\ stats.non_compliant = stats.total_checks - stats.compliant
        /\ IF stats.total_checks = 0
           THEN stats.compliance_rate_percent = 0
           ELSE IsRounded(stats.compliance_rate_percent,
                          100 * stats.compliant, stats.total_checks)
        /\ CheckedRows # <<>> =>
              \E alone \in get_analytics(CheckedRows, analytics.days) :
                  alone.value[1].compliance_statistics = stats

\* one row without a check next to a passed and a failed one: 1 of 2, 50 %
C20_Witness ==
    /\ Answered
    /\ Cardinality(InWindow) = 3
    /\ Cardinality(Checked) = 2
    /\ Answer.compliance_statistics.compliant = 1
    /\ Answer.compliance_statistics.non_compliant = 1
    /\ Answer.compliance_statistics.compliance_rate_percent = 5000

\* position of the first row of the window that failed with message msg
FirstSeen(msg) ==
    CHOOSE i \in FailedWith(msg) : \A j \in FailedWith(msg) : i <= j

\* C18: top_violations has at most 5 entries with non-increasing counts, each
\* count is the number of contributing rows with exactly that message,
\* entries with equal counts stand in first-seen order, and no message left
\* out has a count above the last entry's.
C18_TopViolations ==
    (Answered /\ InWindow # {}) =>
        LET top == Answer.top_violations IN
        /\ Len(top) = Min2(5, Cardinality(FailureMessages))
        /\ \A k \in 1..Len(top) :
              /\ top[k].violation \in FailureMessages
              /\ top[k].count = Cardinality(FailedWith(top[k].violation))
        /\ \A k, l \in 1..Len(top) :
              k < l =>
                 /\ top[k].violation # top[l].violation
                 /\ top[k].count >= top[l].count
                 /\ top[k].count = top[l].count =>
                       FirstSeen(top[k].violation) < FirstSeen(top[l].violation)
        /\ \A msg \in FailureMessages \ Listed :
              Cardinality(FailedWith(msg)) <= top[Len(top)].count

\* six different messages in seven rows: the message seen twice was not the
\* first one seen and leads the list, the others keep their order and the
\* last one seen is left out
C18_Witness ==
    /\ Answered
    /\ Cardinality(InWindow) = 7
    /\ Cardinality(FailureMessages) = 6
    /\ Len(Answer.top_violations) = 5
    /\ Answer.top_violations[1].count = 2
    /\ Answer.top_violations[2].count = 1
    /\ FirstSeen(Answer.top_violations[1].violation)
          > FirstSeen(Answer.top_violations[2].violation)
    /\ FirstSeen(Answer.top_violations[2].violation)
          < FirstSeen(Answer.top_violations[3].violation)

\* C15: the degenerate conditions end in zero defaults, not in an error: a
\* report over zero processed frames has compliance_rate 0 and averages 0;
\* with fps = 0 every frame's timestamp_seconds and the duration are 0; an
\* analytics window whose rows all lack a compliance flag has compliance
\* rate 0; and no division error ends either request.
C15_DegenerateDefaults ==
    /\ (Req.pc = "returned" /\ Req.processed_frames = 0) =>
          /\ Report.success
          /\ Report.compliance_rate = 0
          /\ Report.overall_summary.avg_person_count = 0
          /\ Report.overall_summary.avg_helmet_count = 0
          /\ Report.overall_summary.avg_vest_count = 0
    /\ (Req.pc \notin {"idle", "rejected"} /\ Req.fps = 0) =>
          /\ \A k \in 1..Len(Req.frame_detections) :
                Req.frame_detections[k].timestamp_seconds = 0
          /\ Req.pc = "returned" => Report.metadata.duration_seconds = 0
    /\ (Req.pc = "after_loop" /\ (Req.processed_frames = 0 \/ Req.fps = 0)) =>
          ENABLED VFinish(1)
    /\ (Answered /\ InWindow # {} /\ Checked = {}) =>
          /\ Answer.compliance_statistics.total_checks = 0
          /\ Answer.compliance_statistics.compliance_rate_percent = 0
    /\ analytics.error # Some("ZeroDivisionError")

\* a two-frame upload without a frame rate was processed and reported, and
\* analytics were answered over two rows that carry no compliance flag
C15_Witness ==
    /\ Req.pc = "returned"
    /\ Req.fps = 0
    /\ Req.total_frames = 2
    /\ Req.processed_frames = 2
    /\ Req.frame_detections[2].timestamp_seconds = 0
    /\ Report.metadata.duration_seconds = 0
    /\ Answered
    /\ Cardinality(InWindow) = 2
    /\ Checked = {}
    /\ Answer.compliance_statistics.compliance_rate_percent = 0

\* ----------------------------------------------- properties of two requests
\* the locals a request starts its loop with, given its upload and parameters
StartedAlone(src, s, m) ==
    [IdleCall EXCEPT !.pc = "loop", !.source = src, !.sample_rate = s,
                     !.max_frames = m, !.fps = src.fps,
                     !.total_frames = src.hint,
                     !.duration = Ratio(src.hint, src.fps)]

\* the locals at the end of the loop when the request runs with no other
\* request beside it and inference never fails
RECURSIVE RunAlone(_)
RunAlone(l) ==
    IF ~LoopGuard(l.source.opened, l.processed_frames, l.max_frames)
          \/ ~ReadSucceeds(l)
    THEN l
    ELSE IF Sampled(l.frame_number, l.sample_rate)
    THEN LET dets == Infer(l.source, l.cap_pos)
         IN  RunAlone(ProcessFrame(l, CHOOSE ts \in Timestamps(l) : TRUE,
                                   dets, check_compliance(dets)))
    ELSE RunAlone([l EXCEPT !.cap_pos = @ + 1, !.frame_number = @ + 1])

AloneLocals(c) ==
    RunAlone(StartedAlone(call[c].source, call[c].sample_rate,
                          call[c].max_frames))

\* the reports request c can return when it is served alone
AloneReports(c) ==
    Responses(c, AloneLocals(c), ProcessingResults(AloneLocals(c)))

\* the frame numbers a request has processed so far
Processed(l) ==
    [k \in 1..Len(l.frame_detections) |-> l.frame_detections[k].frame_number]

\* C16: whatever the interleaving of two video requests, each request's
\* report (frame numbers, tallies, compliance_rate) and its stored record are
\* the ones it produces alone on the same upload and parameters.
C16_Isolation ==
    \A c \in CallIds :
        call[c].pc = "returned" =>
            /\ call[c].response[1] \in AloneReports(c)
            /\ Processed(call[c]) = Processed(AloneLocals(c))
            /\ \E k \in 1..Len(video_records) :
                  video_records[k] = VideoRecord(c, AloneLocals(c))

\* both requests returned their reports, the second one started while the
\* first was in its loop and finished first; they processed different numbers
\* of frames
C16_Witness ==
    /\ call[1].pc = "returned"
    /\ call[2].pc = "returned"
    /\ call[1].processed_frames = 2
    /\ call[2].processed_frames = 1
    /\ call[2].frame_number = 2
    /\ Len(video_records) = 2
    /\ video_records[1].request_id = 2
    /\ call[1].response[1].compliance_rate # call[2].response[1].compliance_rate

\* ----------------------------------- further properties of check_compliance
\* input positions of the persons with at least one associated item of cls
Wearing(cls) == ClassIdx("person") \ Lacking(cls)

\* C24: a person has a helmet (vest) exactly when at least one helmet (vest)
\* of the input is associated with that person; items are not used up, so one
\* helmet and one vest associated with two persons make both persons, and
\* the verdict, compliant.
C24_SharedEquipment ==
    (Returned /\ NumPersons >= 1) =>
        /\ verdict.details.persons_with_helmet = Cardinality(Wearing("helmet"))
        /\ verdict.details.persons_with_vest = Cardinality(Wearing("safety-vest"))
        /\ verdict.details.fully_compliant
              = Cardinality(Wearing("helmet") \cap Wearing("safety-vest"))
        /\ (Lacking("helmet") = {} /\ Lacking("safety-vest") = {}) =>
              verdict.is_compliant

\* two persons, one helmet and one vest, each item associated with both
C24_Witness ==
    /\ Returned
    /\ NumPersons = 2
    /\ NumHelmets = 1
    /\ NumVests = 1
    /\ Cardinality(Wearing("helmet")) = 2
    /\ Cardinality(Wearing("safety-vest")) = 2
    /\ verdict.is_compliant
    /\ verdict.details.fully_compliant = 2

HelmetEntry(i) == "Person #" \o ToString(i) \o " is not wearing a helmet"

VestEntry(i) == "Person #" \o ToString(i) \o " is not wearing a safety vest"

\* positions of an entry in the violations list
Places(entry) ==
    {n \in 1..Len(verdict.violations) : verdict.violations[n] = entry}

EntriesOf(i) == Places(HelmetEntry(i)) \cup Places(VestEntry(i))

\* C25: persons are numbered from 1 by their position among the person
\* detections; person i has the helmet entry exactly when lacking a helmet
\* and the vest entry exactly when lacking a vest, each once; the helmet
\* entry of a person precedes that person's vest entry, and all entries of
\* person i precede all entries of person j > i.
C25_ViolationOrder ==
    Returned =>
        /\ \A k \in ClassIdx("person") :
              /\ Cardinality(Places(HelmetEntry(Rank(k))))
                    = (IF k \in Lacking("helmet") THEN 1 ELSE 0)
              /\ Cardinality(Places(VestEntry(Rank(k))))
                    = (IF k \in Lacking("safety-vest") THEN 1 ELSE 0)
              /\ \A h \in Places(HelmetEntry(Rank(k))),
                    v \in Places(VestEntry(Rank(k))) : h < v
        /\ \A i, j \in 1..NumPersons :
              i < j => \A m \in EntriesOf(i), n \in EntriesOf(j) : m < n
        /\ \A n \in 1..Len(verdict.violations) :
              \E i \in 1..NumPersons : n \in EntriesOf(i)

\* the second person of the input is the only one lacking both items, a
\* helmet detection precedes the first person in the input
C25_Witness ==
    /\ Returned
    /\ NumPersons = 2
    /\ detections[1].class_name = "helmet"
    /\ detections[2].class_name = "person"
    /\ verdict.violations
          = <<"Person #1 is not wearing a safety vest",
              "Person #2 is not wearing a helmet",
              "Person #2 is not wearing a safety vest">>

\* C26: with at least one person, fully_compliant <= persons_with_helmet <=
\* total_persons, fully_compliant <= persons_with_vest <= total_persons,
\* persons_with_helmet + persons_with_vest - fully_compliant <= total_persons,
\* and the verdict is compliant exactly when fully_compliant = total_persons.
C26_DetailBounds ==
    (Returned /\ NumPersons >= 1) =>
        LET d == verdict.details IN
        /\ d.total_persons = NumPersons
        /\ d.fully_compliant <= d.persons_with_helmet
        /\ d.persons_with_helmet <= d.total_persons
        /\ d.fully_compliant <= d.persons_with_vest
        /\ d.persons_with_vest <= d.total_persons
        /\ d.persons_with_helmet + d.persons_with_vest - d.fully_compliant
              <= d.total_persons
        /\ verdict.is_compliant <=> (d.fully_compliant = d.total_persons)

\* two persons share a helmet and only one of them has a vest: the third
\* inequality is tight and the verdict is not compliant
C26_Witness ==
    /\ Returned
    /\ verdict.details.total_persons = 2
    /\ verdict.details.persons_with_helmet = 2
    /\ verdict.details.persons_with_vest = 1
    /\ verdict.details.fully_compliant = 1
    /\ ~verdict.is_compliant

\* ------------------------------------- further properties of the video loop
\* C27: after every iteration of the loop compliant_frames +
\* non_compliant_frames = processed_frames = number of accumulated frame
\* reports, total_detections is the sum of the detection counts of those
\* reports, and processed_frames <= frame_number.
C27_LoopInvariant ==
    Req.pc # "idle" =>
        /\ Req.compliant_frames + Req.non_compliant_frames = Req.processed_frames
        /\ Req.processed_frames = Len(Req.frame_detections)
        /\ Req.total_detections
              = SumFn([k \in 1..Len(Req.frame_detections) |->
                          Len(Req.frame_detections[k].detections)],
                      Len(Req.frame_detections))
        /\ Req.processed_frames <= Req.frame_number
        /\ Req.compliant_frames
              = Cardinality({k \in 1..Len(Req.frame_detections) :
                                Req.frame_detections[k].is_compliant})

\* in the loop with every third frame sampled: two of four frames read were
\* processed, one compliant and one not, with detections in the tally
C27_Witness ==
    /\ Req.pc = "loop"
    /\ Req.sample_rate = 3
    /\ Req.frame_number = 4
    /\ Req.processed_frames = 2
    /\ Req.compliant_frames = 1
    /\ Req.non_compliant_frames = 1
    /\ Req.total_detections >= 3

\* C28: once a video request has ended, with a report or with an error, its
\* temporary video file no longer exists.
C28_TempFileRemoved ==
    Req.pc \in {"returned", "failed"} => 1 \notin tmpfiles

\* ------------------------------------------- further properties of analytics
DatesInWindow == {DateOf(detection_records[i].timestamp) : i \in InWindow}

OnDate(date) == {i \in InWindow : DateOf(detection_records[i].timestamp) = date}

\* the sum of one column over a set of rows of the table
RECURSIVE SumRows(_, _)
SumRows(rows, column) ==
    IF rows = {} THEN 0
    ELSE LET i == CHOOSE j \in rows : TRUE
         IN  detection_records[i][column] + SumRows(rows \ {i}, column)

Trends == Answer.detection_trends

\* C21: detection_trends has exactly one bucket per calendar date among the
\* window's timestamps, each bucket holds the number of that date's rows and
\* the sums of their detection, person, helmet and vest counts, and the
\* buckets stand in strictly ascending date order, whatever the order of the
\* rows.
C21_DailyBuckets ==
    (Answered /\ InWindow # {}) =>
        /\ Len(Trends) = Cardinality(DatesInWindow)
        /\ {Trends[k].date : k \in 1..Len(Trends)} = DatesInWindow
        /\ \A k, l \in 1..Len(Trends) : k < l => Trends[k].date < Trends[l].date
        /\ \A k \in 1..Len(Trends) :
              LET rows == OnDate(Trends[k].date) IN
              /\ Trends[k].requests = Cardinality(rows)
              /\ Trends[k].detections = SumRows(rows, "total_detections")
              /\ Trends[k].persons = SumRows(rows, "person_count")
              /\ Trends[k].helmets = SumRows(rows, "helmet_count")
              /\ Trends[k].vests = SumRows(rows, "vest_count")

\* the table holds a row of today, then one of yesterday, then one of today:
\* yesterday's bucket comes first, today's bucket counts two requests
C21_Witness ==
    /\ Answered
    /\ Cardinality(InWindow) = 3
    /\ DateOf(detection_records[1].timestamp) > DateOf(detection_records[2].timestamp)
    /\ DateOf(detection_records[3].timestamp) = DateOf(detection_records[1].timestamp)
    /\ Len(Trends) = 2
    /\ Trends[2].requests = 2
    /\ Trends[2].detections >= 2

\* f[1] + ... + f[n] of one field of the buckets
TrendSum(field) ==
    SumFn([k \in 1..Len(Trends) |-> Trends[k][field]], Len(Trends))

\* C29: for a non-empty window the daily buckets partition its rows: their
\* requests add up to total_requests and their detections, persons, helmets
\* and vests to the totals of the summary.
C29_BucketsPartition ==
    (Answered /\ InWindow # {}) =>
        /\ Answer.total_requests = Cardinality(InWindow)
        /\ TrendSum("requests") = Answer.total_requests
        /\ TrendSum("detections") = Answer.summary.total_detections
        /\ TrendSum("persons") = Answer.summary.total_persons
        /\ TrendSum("helmets") = Answer.summary.total_helmets
        /\ TrendSum("vests") = Answer.summary.total_vests
        /\ Answer.summary.total_detections = SumRows(InWindow, "total_detections")
        /\ Answer.summary.total_persons = SumRows(InWindow, "person_count")
        /\ Answer.summary.total_helmets = SumRows(InWindow, "helmet_count")
        /\ Answer.summary.total_vests = SumRows(InWindow, "vest_count")

\* three rows on two dates, with persons and a helmet among them
C29_Witness ==
    /\ Answered
    /\ Answer.total_requests = 3
    /\ Len(Trends) = 2
    /\ Trends[1].requests = 2
    /\ Answer.summary.total_persons >= 2
    /\ Answer.summary.total_helmets >= 1
    /\ Answer.summary.total_detections > Trends[1].detections

\* the counts of top_violations added up
TopSum ==
    SumFn([k \in 1..Len(Answer.top_violations) |->
              Answer.top_violations[k].count],
          Len(Answer.top_violations))

\* C30: a row written by save_detection_record has a null compliance flag
\* exactly when it has a null compliance message; hence the counts of
\* top_violations never add up to more than
\* compliance_statistics.non_compliant.
C30_FlagAndMessage ==
    /\ \A i \in 1..Len(detection_records) :
          (Flag(i) = None) <=> (MessageOf(i) = None)
    /\ (Answered /\ InWindow # {}) =>
          TopSum <= Answer.compliance_statistics.non_compliant

\* a row without a check, a passed check and a failed check in the window
C30_Witness ==
    /\ Answered
    /\ Cardinality(InWindow) = 3
    /\ \E i \in InWindow : Flag(i) = None /\ MessageOf(i) = None
    /\ \E i \in InWindow : Flag(i) = Some(TRUE) /\ MessageOf(i) # None
    /\ \E i \in InWindow : Flag(i) = Some(FALSE) /\ MessageOf(i) # None
    /\ TopSum = 1
    /\ Answer.compliance_statistics.non_compliant = 1

\* the aggregates of an answer, without the date range of its request
Aggregates(a) ==
    [total_requests |-> a.result[1].total_requests,
     summary |-> a.result[1].summary,
     compliance_statistics |-> a.result[1].compliance_statistics,
     top_violations |-> a.result[1].top_violations,
     detection_trends |-> a.result[1].detection_trends,
     performance_metrics |-> a.result[1].performance_metrics]

\* one /analytics request is served in this step
QueryStep == analytics'.pc # "idle" /\ analytics' # analytics

\* C22: an analytics query writes nothing: the tables are the same after it
\* as before, however many queries were made and whatever their windows; two
\* successive queries that select the same rows return the same aggregates,
\* and every answer is computed from the rows the table holds now.
C22_NoWrites ==
    [][QueryStep =>
          /\ detection_records' = detection_records
          /\ video_records' = video_records
          /\ (analytics.pc = "returned" /\ analytics'.pc = "returned"
                /\ analytics'.records = analytics.records) =>
                   Aggregates(analytics') = Aggregates(analytics)
          /\ analytics'.pc = "returned" =>
                analytics'.result[1].total_requests = Cardinality(InWindow')
       ]_vars

\* a query over the last day was answered from one of the table's three rows
C22_Witness ==
    /\ Answered
    /\ analytics.days = 1
    /\ Len(detection_records) = 3
    /\ Cardinality(InWindow) = 1
    /\ Answer.total_requests = 1

\* ---------------------------------------------------------- the record store
IsPrefixOf(old, new) ==
    /\ Len(old) <= Len(new)
    /\ \A i \in 1..Len(old) : new[i] = old[i]

\* rows added to the two tables by this step
NewDetectionRecords == Len(detection_records') - Len(detection_records)

NewVideoRecords == Len(video_records') - Len(video_records)

\* this step answers a batch request
BatchServed == batch'.request_id # batch.request_id

\* this step answers the video request with its report
VideoServed == \E c \in CallIds : call[c].pc # "returned" /\ call'[c].pc = "returned"

\* C23: the record store is append-only: no step changes or removes a row of
\* either table. A served predict or check-compliance request adds exactly
\* one DetectionRecord, a served predict-video request exactly one
\* VideoProcessingRecord, and a served predict-batch request one
\* DetectionRecord for each image it processed (processed_images of its
\* answer, none for a failed image); nothing else adds a row.
C23_AppendOnly ==
    [][/\ IsPrefixOf(detection_records, detection_records')
       /\ IsPrefixOf(video_records, video_records')
       /\ BatchServed =>
             /\ batch'.pc = "returned"
             /\ NewDetectionRecords = batch'.processed_images
             /\ batch'.processed_images + batch'.failed_images = batch'.total_images
             /\ \A i \in (Len(detection_records) + 1)..Len(detection_records') :
                   detection_records'[i].endpoint = "predict-batch"
             /\ NewVideoRecords = 0
       /\ ~BatchServed =>
             /\ NewDetectionRecords \in {0, 1}
             /\ NewDetectionRecords = 1 =>
                   /\ detection_records'[Len(detection_records')].endpoint
                         \in {"predict", "check-compliance"}
                   /\ NewVideoRecords = 0
       /\ VideoServed <=> NewVideoRecords = 1
       /\ NewVideoRecords \in {0, 1}
       /\ analytics' # analytics => NewDetectionRecords = 0 /\ NewVideoRecords = 0
      ]_vars

\* C23 as stated: every served request, a batch request too, adds exactly one
\* record.
C23_OneRecordPerRequest ==
    [][/\ IsPrefixOf(detection_records, detection_records')
       /\ IsPrefixOf(video_records, video_records')
       /\ BatchServed => NewDetectionRecords + NewVideoRecords = 1
       /\ VideoServed => NewDetectionRecords + NewVideoRecords = 1
       /\ NewDetectionRecords + NewVideoRecords \in {0, 1}
      ]_vars

\* a batch of two images was answered, one row each, after a single image
\* request and a video request had added their rows
C23_Witness ==
    /\ batch.pc = "returned"
    /\ batch.total_images = 2
    /\ batch.processed_images = 2
    /\ Len(detection_records) = 3
    /\ detection_records[1].endpoint = "predict"
    /\ detection_records[2].endpoint = "predict-batch"
    /\ detection_records[3].endpoint = "predict-batch"
    /\ Len(video_records) = 1
    /\ call[1].pc = "returned"

====
